---- MODULE Spec2Model ----
(***************************************************************************)
(* A model of rollexpr: the tokenizer, the recursive-descent parser, the   *)
(* evaluator, the simplifier and the printer of dice-roll expressions.     *)
(*                                                                         *)
(* Text is a sequence of one-character strings.  Numbers are the exact     *)
(* values of IEEE doubles that the inputs of this model produce: a         *)
(* fraction in lowest terms, a signed zero, a signed infinity or NaN.      *)
(* AST nodes are records; the field id stands for the object identity of   *)
(* a node: a node allocated by the tokenizer or the parser carries the     *)
(* (unique) index of its token plus one, a node allocated by simplify      *)
(* carries 0.                                                              *)
(***************************************************************************)
EXTENDS Integers, Sequences, FiniteSets, TLC

VARIABLES
    input,        \* the text handed to parse
    ctx,          \* the caller's Context: variable name -> number
    pc,           \* where the caller is: "start", "ready", "failed", "calced", "printed", "reparsed"
    parsed,       \* the result of parse(input)
    cur,          \* the Expression the caller holds
    prev,         \* the Expression cur was obtained from by the last simplify
    nSimplify,    \* how many times simplify was applied since parse
    out,          \* the text of cur.toString()
    reparsed,     \* the result of parse(out)
    value,        \* the number returned by cur.calc(ctx, sink)
    sink,         \* the caller's RollResult[] array
    randomCalls,  \* how many times Math.random was called
    draws         \* the values Math.random returned during the last calc, in call order

vars == <<input, ctx, pc, parsed, cur, prev, nSimplify, out, reparsed, value, sink, randomCalls, draws>>

----------------------------------------------------------------------------
(* Characters *)

Digit == {"0", "1", "2", "3", "4", "5", "6", "7", "8", "9"}
Lower == {"a", "b", "c", "d", "e", "f", "g", "h", "i", "j", "k", "l", "m",
          "n", "o", "p", "q", "r", "s", "t", "u", "v", "w", "x", "y", "z"}
Upper == {"A", "B", "C", "D", "E", "F", "G", "H", "I", "J", "K", "L", "M",
          "N", "O", "P", "Q", "R", "S", "T", "U", "V", "W", "X", "Y", "Z"}
Letter == Lower \cup Upper
\* \s
Whitespace == {" ", "\t", "\n"}
\* [$a-zA-Z_]
SymStart == Letter \cup {"$", "_"}
\* [$a-zA-Z1-9_.]
SymRest == Letter \cup {"$", "_", "."} \cup (Digit \ {"0"})
\* [*/()+-]
OpChar == {"*", "/", "(", ")", "+", "-"}

DigitVal(c) ==
    CASE c = "0" -> 0 [] c = "1" -> 1 [] c = "2" -> 2 [] c = "3" -> 3
      [] c = "4" -> 4 [] c = "5" -> 5 [] c = "6" -> 6 [] c = "7" -> 7
      [] c = "8" -> 8 [] c = "9" -> 9

DigitChar(n) == <<"0", "1", "2", "3", "4", "5", "6", "7", "8", "9">>[n + 1]

\* expr[i] of a JavaScript string: indices start at 0, "" past the end
At(text, i) == IF i >= 0 /\ i < Len(text) THEN text[i + 1] ELSE ""

\* expr.substring(i)
Substring(text, i) == SubSeq(text, i + 1, Len(text))

\* the first index >= i of text whose character is not in S
RECURSIVE SpanEnd(_, _, _)
SpanEnd(text, i, S) ==
    IF At(text, i) \in S THEN SpanEnd(text, i + 1, S) ELSE i

----------------------------------------------------------------------------
(* Numbers *)

Abs(n) == IF n < 0 THEN -n ELSE n

RECURSIVE GCD(_, _)
GCD(a, b) == IF b = 0 THEN a ELSE GCD(b, a % b)

RECURSIVE Pow10(_)
Pow10(k) == IF k = 0 THEN 1 ELSE 10 * Pow10(k - 1)

NaN == [k |-> "nan", n |-> 0, d |-> 0, z |-> FALSE]
\* +Infinity (s = 1) and -Infinity (s = -1)
Inf(s) == [k |-> "inf", n |-> s, d |-> 0, z |-> FALSE]
\* +0 (neg = FALSE) and -0 (neg = TRUE)
Zero(neg) == [k |-> "fin", n |-> 0, d |-> 1, z |-> neg]
\* the finite non-zero number n / d in lowest terms, d > 0
Frac(n, d) ==
    LET g == GCD(Abs(n), Abs(d))
        s == IF d < 0 THEN -1 ELSE 1
    IN [k |-> "fin", n |-> s * (n \div g), d |-> s * (d \div g), z |-> FALSE]
IntNum(n) == IF n = 0 THEN Zero(FALSE) ELSE Frac(n, 1)

IsZero(x) == x.k = "fin" /\ x.n = 0
\* the sign bit of a number that is not NaN
IsNeg(x) == IF IsZero(x) THEN x.z ELSE x.n < 0
XorSign(x, y) == IsNeg(x) # IsNeg(y)
SignOf(neg) == IF neg THEN -1 ELSE 1

Neg(x) ==
    CASE x.k = "nan" -> NaN
      [] x.k = "inf" -> Inf(-x.n)
      [] IsZero(x) -> Zero(~x.z)
      [] OTHER -> [x EXCEPT !.n = -x.n]

\* left + right
Add(x, y) ==
    CASE x.k = "nan" \/ y.k = "nan" -> NaN
      [] x.k = "inf" /\ y.k = "inf" -> IF x.n = y.n THEN x ELSE NaN
      [] x.k = "inf" -> x
      [] y.k = "inf" -> y
      [] OTHER ->
           LET n == x.n * y.d + y.n * x.d
           IN IF n = 0
              THEN Zero(IsZero(x) /\ IsZero(y) /\ x.z /\ y.z)
              ELSE Frac(n, x.d * y.d)

\* left - right
Sub(x, y) == Add(x, Neg(y))

\* left * right
Mul(x, y) ==
    CASE x.k = "nan" \/ y.k = "nan" -> NaN
      [] x.k = "inf" \/ y.k = "inf" ->
           IF IsZero(x) \/ IsZero(y) THEN NaN
           ELSE Inf(SignOf(XorSign(x, y)))
      [] x.n = 0 \/ y.n = 0 -> Zero(XorSign(x, y))
      [] OTHER -> Frac(x.n * y.n, x.d * y.d)

\* left / right: true division, division by zero gives an infinity or NaN
Div(x, y) ==
    CASE x.k = "nan" \/ y.k = "nan" -> NaN
      [] x.k = "inf" -> IF y.k = "inf" THEN NaN ELSE Inf(SignOf(XorSign(x, y)))
      [] y.k = "inf" -> Zero(XorSign(x, y))
      [] IsZero(y) -> IF IsZero(x) THEN NaN ELSE Inf(SignOf(XorSign(x, y)))
      [] IsZero(x) -> Zero(XorSign(x, y))
      [] OTHER -> Frac(x.n * y.d, x.d * y.n)

\* left === right of two numbers: NaN equals nothing, -0 equals +0
StrictEq(x, y) ==
    /\ x.k # "nan" /\ y.k # "nan"
    /\ x.k = y.k /\ x.n = y.n /\ x.d = y.d

\* left > right of two numbers: false when either is NaN
Gt(x, y) ==
    CASE x.k = "nan" \/ y.k = "nan" -> FALSE
      [] x.k = "inf" -> x.n = 1 /\ ~(y.k = "inf" /\ y.n = 1)
      [] y.k = "inf" -> y.n = -1
      [] OTHER -> x.n * y.d > y.n * x.d

IsFinite(x) == x.k = "fin"

----------------------------------------------------------------------------
(* AST nodes *)

NoNode == [type |-> "none"]

Literal(val, id) == [type |-> "Literal", val |-> val, id |-> id]
Reference(ref, id) == [type |-> "Reference", ref |-> ref, id |-> id]
\* mod is "h", "l" or "" (undefined)
Roll(dice, sides, mod, id) ==
    [type |-> "Roll", dice |-> dice, sides |-> sides, mod |-> mod, id |-> id]
Operation(op, left, right, id) ==
    [type |-> "Operation", op |-> op, left |-> left, right |-> right, id |-> id]

\* the identity of a node allocated by simplify
NewId == 0

Operator == {"+", "-", "*", "/"}

\* precedence['+'], precedence['-']
PrecAdditive == 0
\* precedence['*'], precedence['/']
PrecMultiplicative == 1
precedence(op) == IF op \in {"+", "-"} THEN PrecAdditive ELSE PrecMultiplicative

----------------------------------------------------------------------------
(* Tokenizer *)

\* the value of the digits text[i .. j-1]
RECURSIVE NatOf(_, _, _)
NatOf(text, i, j) ==
    IF j <= i THEN 0 ELSE 10 * NatOf(text, i, j - 1) + DigitVal(At(text, j - 1))

\* Number(s) for s = text[i .. j-1] matching -?\d+(\.\d+)?
NumberOf(text, i, j) ==
    LET neg == At(text, i) = "-"
        a == IF neg THEN i + 1 ELSE i
        b == SpanEnd(text, a, Digit)
        f == IF b < j THEN j - (b + 1) ELSE 0
        m == NatOf(text, a, b) * Pow10(f) + (IF b < j THEN NatOf(text, b + 1, j) ELSE 0)
    IN IF m = 0 THEN Zero(neg) ELSE Frac(SignOf(neg) * m, Pow10(f))

TokDone == [k |-> "done", v |-> "", e |-> NoNode, idx |-> 0, msg |-> <<>>]
TokPunct(c, at, idx) == [k |-> "punct", v |-> c, e |-> NoNode, at |-> at, idx |-> idx, msg |-> <<>>]
TokExpr(e, idx) == [k |-> "expr", v |-> "", e |-> e, idx |-> idx, msg |-> <<>>]
\* the fixed parts of the messages of the errors thrown
UnexpectedInput == <<"U", "n", "e", "x", "p", "e", "c", "t", "e", "d", " ", "i", "n", "p", "u", "t", ":", " ">>
UnexpectedToken == <<"U", "n", "e", "x", "p", "e", "c", "t", "e", "d", " ", "t", "o", "k", "e", "n", ":", " ">>
After == <<" ", "a", "f", "t", "e", "r", " ">>
IncompleteExpression == <<"I", "n", "c", "o", "m", "p", "l", "e", "t", "e", " ", "e", "x", "p", "r", "e", "s", "s", "i", "o", "n">>
UnmatchedParenthesis == <<"U", "n", "m", "a", "t", "c", "h", "e", "d", " ", "p", "a", "r", "e", "n", "t", "h", "e", "s", "i", "s">>
UnexpectedOperator == <<"U", "n", "e", "x", "p", "e", "c", "t", "e", "d", " ", "o", "p", "e", "r", "a", "t", "o", "r", " ">>

\* throw new SyntaxError(`Unexpected input: ${expr.substring(tokenPattern.lastIndex)}`):
\* rest is the substring reported
TokError(rest) ==
    [k |-> "error", v |-> "", e |-> NoNode, idx |-> 0, msg |-> UnexpectedInput \o rest]

\* One tokenPattern.exec(expr) of the sticky pattern at lastIndex, and the token
\* tokenize yields for it.  A failed exec resets lastIndex to 0 before the
\* message is built.
exec(text, lastIndex) ==
    LET s == SpanEnd(text, lastIndex, Whitespace)
        c == At(text, s)
        symEnd == SpanEnd(text, s + 1, SymRest)
        d1 == SpanEnd(text, s, Digit)
        d2 == SpanEnd(text, d1 + 1, Digit)
        isDice == d1 > s /\ At(text, d1) = "d" /\ d2 > d1 + 1
        hasMod == At(text, d2) \in {"h", "l"}
        l0 == IF c = "-" THEN s + 1 ELSE s
        l1 == SpanEnd(text, l0, Digit)
        l2 == SpanEnd(text, l1 + 1, Digit)
        litEnd == IF At(text, l1) = "." /\ l2 > l1 + 1 THEN l2 ELSE l1
    IN IF c \in SymStart
       THEN TokExpr(Reference(SubSeq(text, s + 1, symEnd), s + 1), symEnd)
       ELSE IF isDice
       THEN TokExpr(Roll(NatOf(text, s, d1), NatOf(text, d1 + 1, d2),
                         IF hasMod THEN At(text, d2) ELSE "", s + 1),
                    IF hasMod THEN d2 + 1 ELSE d2)
       ELSE IF l1 > l0
       THEN TokExpr(Literal(NumberOf(text, s, litEnd), s + 1), litEnd)
       ELSE IF c \in OpChar
       THEN TokPunct(c, s + 1, s + 1)
       ELSE TokError(Substring(text, 0))

\* tokenStream.next() with the pattern at lastIndex
tokenize(text, lastIndex) ==
    IF lastIndex < Len(text) THEN exec(text, lastIndex) ELSE TokDone

----------------------------------------------------------------------------
(* Printer *)

RECURSIVE NatToString(_)
NatToString(n) ==
    IF n < 10 THEN <<DigitChar(n)>>
    ELSE NatToString(n \div 10) \o <<DigitChar(n % 10)>>

\* Number.prototype.toString prints no more than 17 significant digits; the
\* numbers of this model have terminating expansions, which end before that
SignificantDigits == 17

\* the digits of r / q after the decimal point, r < q, at most k of them
RECURSIVE FractionDigits(_, _, _)
FractionDigits(r, q, k) ==
    IF r = 0 \/ k = 0 THEN <<>>
    ELSE <<DigitChar((r * 10) \div q)>> \o FractionDigits((r * 10) % q, q, k - 1)

\* Number.prototype.toString of a positive finite number p / q below 10^21:
\* decimal notation from 10^-6 on, exponent notation below
PositiveToString(p, q) ==
    LET whole == p \div q
        frac == FractionDigits(p % q, q, SignificantDigits)
        zeros == SpanEnd(frac, 0, {"0"})
        digits == Substring(frac, zeros)
    IN IF whole > 0
       THEN NatToString(whole) \o (IF frac = <<>> THEN <<>> ELSE <<".">> \o frac)
       ELSE IF zeros < 6
       THEN <<"0", ".">> \o frac
       ELSE <<Head(digits)>>
            \o (IF Len(digits) > 1 THEN <<".">> \o Tail(digits) ELSE <<>>)
            \o <<"e", "-">> \o NatToString(zeros + 1)

\* Number.prototype.toString
NumberToString(x) ==
    CASE x.k = "nan" -> <<"N", "a", "N">>
      [] x.k = "inf" ->
           (IF x.n < 0 THEN <<"-">> ELSE <<>>)
           \o <<"I", "n", "f", "i", "n", "i", "t", "y">>
      [] IsZero(x) -> <<"0">>
      [] OTHER ->
           (IF x.n < 0 THEN <<"-">> ELSE <<>>) \o PositiveToString(Abs(x.n), x.d)

\* Roll.toString
rollToString(e) ==
    NatToString(e.dice) \o <<"d">> \o NatToString(e.sides)
    \o (IF e.mod = "" THEN <<>> ELSE <<e.mod>>)

\* Operation.toString as it first was: every right operand that is an
\* Operation is wrapped, and a sum or difference on the left of * and /
operationToString_WrapsEveryRight(e, leftText, rightText) ==
    (IF e.op \in {"*", "/"} /\ e.left.type = "Operation" /\ e.left.op \in {"+", "-"}
     THEN <<"(">> \o leftText \o <<")">> ELSE leftText)
    \o <<" ", e.op, " ">>
    \o (IF e.right.type = "Operation"
        THEN <<"(">> \o rightText \o <<")">> ELSE rightText)

\* Operation.toString, from the texts of the two operands
operationToString(e, leftText, rightText) ==
    (IF e.left.type = "Operation" /\ precedence(e.op) > precedence(e.left.op)
     THEN <<"(">> \o leftText \o <<")">> ELSE leftText)
    \o <<" ", e.op, " ">>
    \o (IF e.right.type = "Operation" /\ precedence(e.op) >= precedence(e.right.op)
        THEN <<"(">> \o rightText \o <<")">> ELSE rightText)

\* Expression.toString
RECURSIVE toString(_)
toString(e) ==
    CASE e.type = "Literal" -> NumberToString(e.val)
      [] e.type = "Reference" -> e.ref
      [] e.type = "Roll" -> rollToString(e)
      [] e.type = "Operation" -> operationToString(e, toString(e.left), toString(e.right))

----------------------------------------------------------------------------
(* Parser *)

\* String.prototype.trim
RECURSIVE TrimEnd(_)
TrimEnd(text) ==
    IF Len(text) > 0 /\ text[Len(text)] \in Whitespace
    THEN TrimEnd(SubSeq(text, 1, Len(text) - 1)) ELSE text
trim(text) == TrimEnd(Substring(text, SpanEnd(text, 0, Whitespace)))

\* a parser returns the expression and the tokenizer's position, or the error thrown
Parsed(e, idx) == [ok |-> TRUE, e |-> e, idx |-> idx, err |-> "", msg |-> <<>>]
Thrown(err, msg) == [ok |-> FALSE, e |-> NoNode, idx |-> 0, err |-> err, msg |-> msg]
NotParsed == [ok |-> FALSE, e |-> NoNode, idx |-> 0, err |-> "none", msg |-> <<>>]

RECURSIVE parseExpr(_, _), parseTerm(_, _), parseFactor(_, _)
RECURSIVE opParser(_, _, _, _), opParserLoop(_, _, _, _, _)

\* parseFactor after "(" and the expression expr: close is what toks.next() returns
parseFactorClose(expr, close) ==
    IF close.k = "error" THEN Thrown("SyntaxError", close.msg)
    ELSE IF close.k = "punct" /\ close.v = ")" THEN Parsed(expr.e, close.idx)
    ELSE Thrown("Error", UnmatchedParenthesis)

\* parseFactor after "(": expr is what parseExpr(toks) returns or throws
parseFactorParen(text, expr) ==
    IF ~expr.ok THEN expr ELSE parseFactorClose(expr, tokenize(text, expr.idx))

\* parseFactor on the token tok that toks.next() returns
parseFactorOn(text, tok) ==
    IF tok.k = "error" THEN Thrown("SyntaxError", tok.msg)
    ELSE IF tok.k = "done" THEN Thrown("Error", IncompleteExpression)
    ELSE IF tok.k = "punct"
    THEN IF tok.v = "("
         THEN parseFactorParen(text, parseExpr(text, tok.idx))
         ELSE Thrown("Error", UnexpectedOperator \o <<"\"", tok.v, "\"">>)
    ELSE Parsed(tok.e, tok.idx)

parseFactor(text, idx) == parseFactorOn(text, tokenize(text, idx))

\* nextParser of the opParser whose first operator is op1
nextParser(op1, text, idx) ==
    IF op1 = "+" THEN parseTerm(text, idx) ELSE parseFactor(text, idx)

\* an opParser that builds the Operation with its operands exchanged
opParserRight_Exchanged(op1, op2, text, left, op, right) ==
    IF ~right.ok THEN right
    ELSE opParserLoop(op1, op2, text, Operation(op.v, right.e, left, op.at), right.idx)

\* the body of opParser's while loop once nextParser returned or threw right
opParserRight(op1, op2, text, left, op, right) ==
    IF ~right.ok THEN right
    ELSE opParserLoop(op1, op2, text, Operation(op.v, left, right.e, op.at), right.idx)

\* the test of opParser's while loop on op, the token toks.peek() returns
opParserOn(op1, op2, text, left, idx, op) ==
    IF op.k = "error" THEN Thrown("SyntaxError", op.msg)
    ELSE IF op.k = "punct" /\ (op.v = op1 \/ op.v = op2)
    THEN opParserRight(op1, op2, text, left, op, nextParser(op1, text, op.idx))
    ELSE Parsed(left, idx)

\* the while loop of opParser: left is the expression so far, idx the position
\* of the token toks.peek() returns
opParserLoop(op1, op2, text, left, idx) ==
    opParserOn(op1, op2, text, left, idx, tokenize(text, idx))

\* opParser once the first nextParser returned or threw left
opParserLeft(op1, op2, text, left) ==
    IF ~left.ok THEN left ELSE opParserLoop(op1, op2, text, left.e, left.idx)

opParser(op1, op2, text, idx) ==
    opParserLeft(op1, op2, text, nextParser(op1, text, idx))

parseTerm(text, idx) == opParser("*", "/", text, idx)
parseExpr(text, idx) == opParser("+", "-", text, idx)

\* a parse that returns the expression whatever follows it
parseEnd_Truncating(text, expr, tok) == expr

\* parse after parseExpr returned expr: tok is what tokens.next() returns
parseEnd(text, expr, tok) ==
    IF tok.k = "error" THEN Thrown("SyntaxError", tok.msg)
    ELSE IF tok.k # "done"
    THEN Thrown("SyntaxError",
                UnexpectedToken \o (IF tok.k = "punct" THEN <<tok.v>> ELSE toString(tok.e))
                    \o After \o toString(expr.e))
    ELSE expr

\* parse of the trimmed input once parseExpr returned or threw expr
parseTop(text, expr) ==
    IF ~expr.ok THEN expr ELSE parseEnd(text, expr, tokenize(text, expr.idx))

parseTrimmed(text) == parseTop(text, parseExpr(text, 0))

parse(inp) == parseTrimmed(trim(inp))

----------------------------------------------------------------------------
(* Evaluator *)

\* Perform a binary arithmetic operation
doOp(op, left, right) ==
    CASE op = "+" -> Add(left, right)
      [] op = "-" -> Sub(left, right)
      [] op = "*" -> Mul(left, right)
      [] op = "/" -> Div(left, right)

\* Math.random() returns u / RandomGrain for a u in 0 .. RandomGrain - 1
RandomGrain == 2
RandomValues == 0 .. (RandomGrain - 1)

\* Roll.roll1 with Math.ceil(Math.random() * this.sides) for the face
roll1_Ceil(u, sides) == (u * sides + RandomGrain - 1) \div RandomGrain

\* Roll.roll1 for the random value u / RandomGrain
roll1(u, sides) == 1 + ((u * sides) \div RandomGrain)

RECURSIVE SumSeq(_)
SumSeq(q) == IF q = <<>> THEN 0 ELSE q[1] + SumSeq(Tail(q))
\* Math.max(...rolls), Math.min(...rolls): -Infinity and Infinity of no rolls at all
MaxSeq(q) ==
    IF q = <<>> THEN Inf(-1)
    ELSE IntNum(CHOOSE m \in {q[i] : i \in 1 .. Len(q)} : \A i \in 1 .. Len(q) : q[i] <= m)
MinSeq(q) ==
    IF q = <<>> THEN Inf(1)
    ELSE IntNum(CHOOSE m \in {q[i] : i \in 1 .. Len(q)} : \A i \in 1 .. Len(q) : m <= q[i])

\* the optional rolls argument of calc: given = FALSE is undefined
NoSink == [given |-> FALSE, items |-> <<>>]
Sink(items) == [given |-> TRUE, items |-> items]

\* the state calc threads through an evaluation: the number returned, the
\* array of RollResults, the values Math.random has yet to return and how
\* often it was called
Calced(v, rollResults, rnd, calls) ==
    [v |-> v, rollResults |-> rollResults, rnd |-> rnd, calls |-> calls]

\* Roll.calc as it first was: the RollResult it pushes has no value
calcRoll_WithoutValue(e, rollResults, rnd, calls) ==
    LET rolls == [i \in 1 .. e.dice |-> roll1(rnd[i], e.sides)]
        result == IF e.mod = "h" THEN MaxSeq(rolls)
                  ELSE IF e.mod = "l" THEN MinSeq(rolls)
                  ELSE IntNum(SumSeq(rolls))
        pushed == IF rollResults.given
                  THEN Sink(Append(rollResults.items, [die |-> e.sides, rolls |-> rolls]))
                  ELSE rollResults
    IN Calced(result, pushed, SubSeq(rnd, e.dice + 1, Len(rnd)), calls + e.dice)

\* Roll.calc
calcRoll(e, rollResults, rnd, calls) ==
    LET rolls == [i \in 1 .. e.dice |-> roll1(rnd[i], e.sides)]
        result == IF e.mod = "h" THEN MaxSeq(rolls)
                  ELSE IF e.mod = "l" THEN MinSeq(rolls)
                  ELSE IntNum(SumSeq(rolls))
        pushed == IF rollResults.given
                  THEN Sink(Append(rollResults.items,
                                   [die |-> e.sides, rolls |-> rolls, value |-> result]))
                  ELSE rollResults
    IN Calced(result, pushed, SubSeq(rnd, e.dice + 1, Len(rnd)), calls + e.dice)

\* Reference.calc: context[this.ref] ?? 0
calcReference(e, context) ==
    IF e.ref \in DOMAIN context THEN context[e.ref] ELSE Zero(FALSE)

\* Expression.calc(context, rolls): the left operand is evaluated before the right
RECURSIVE calc(_, _, _, _, _)
\* an Operation.calc that evaluates its right operand first
calc_RightFirst(e, context, rollResults, rnd, calls) ==
    CASE e.type = "Literal" -> Calced(e.val, rollResults, rnd, calls)
      [] e.type = "Reference" -> Calced(calcReference(e, context), rollResults, rnd, calls)
      [] e.type = "Roll" -> calcRoll(e, rollResults, rnd, calls)
      [] e.type = "Operation" ->
           LET r == calc(e.right, context, rollResults, rnd, calls)
               l == calc(e.left, context, r.rollResults, r.rnd, r.calls)
           IN Calced(doOp(e.op, l.v, r.v), l.rollResults, l.rnd, l.calls)

calc(e, context, rollResults, rnd, calls) ==
    CASE e.type = "Literal" -> Calced(e.val, rollResults, rnd, calls)
      [] e.type = "Reference" -> Calced(calcReference(e, context), rollResults, rnd, calls)
      [] e.type = "Roll" -> calcRoll(e, rollResults, rnd, calls)
      [] e.type = "Operation" ->
           LET l == calc(e.left, context, rollResults, rnd, calls)
               r == calc(e.right, context, l.rollResults, l.rnd, l.calls)
           IN Calced(doOp(e.op, l.v, r.v), r.rollResults, r.rnd, r.calls)

----------------------------------------------------------------------------
(* Simplifier *)

\* a mergeLeft that sums the literals of two equal operators, * and / too
mergeLeft_AlwaysSums(farLeft, leftOp, left, rightOp, right) ==
    IF leftOp = rightOp
    THEN Operation(leftOp, farLeft, Literal(Add(left, right), NewId), NewId)
    ELSE IF StrictEq(left, right)
    THEN farLeft
    ELSE LET gt == Gt(left, right)
             op == IF gt THEN leftOp ELSE rightOp
             bigger == IF gt THEN left ELSE right
             smaller == IF gt THEN right ELSE left
         IN IF op = "+" \/ op = "-"
            THEN Operation(op, farLeft, Literal(Sub(bigger, smaller), NewId), NewId)
            ELSE Operation(op, farLeft, Literal(Div(bigger, smaller), NewId), NewId)

\* mergeLeft without the branch of equal values
mergeLeft_NoCancel(farLeft, leftOp, left, rightOp, right) ==
    IF leftOp = rightOp
    THEN IF leftOp = "+" \/ leftOp = "-"
         THEN Operation(leftOp, farLeft, Literal(Add(left, right), NewId), NewId)
         ELSE Operation(leftOp, farLeft, Literal(Mul(left, right), NewId), NewId)
    ELSE LET gt == Gt(left, right)
             op == IF gt THEN leftOp ELSE rightOp
             bigger == IF gt THEN left ELSE right
             smaller == IF gt THEN right ELSE left
         IN IF op = "+" \/ op = "-"
            THEN Operation(op, farLeft, Literal(Sub(bigger, smaller), NewId), NewId)
            ELSE Operation(op, farLeft, Literal(Div(bigger, smaller), NewId), NewId)

\* Operation.mergeLeft: expr1 op1 lit1 op2 lit2 as expr1 op lit
mergeLeft(farLeft, leftOp, left, rightOp, right) ==
    IF leftOp = rightOp
    THEN IF leftOp = "+" \/ leftOp = "-"
         THEN Operation(leftOp, farLeft, Literal(Add(left, right), NewId), NewId)
         ELSE Operation(leftOp, farLeft, Literal(Mul(left, right), NewId), NewId)
    ELSE IF StrictEq(left, right)
    THEN farLeft
    ELSE LET gt == Gt(left, right)
             op == IF gt THEN leftOp ELSE rightOp
             bigger == IF gt THEN left ELSE right
             smaller == IF gt THEN right ELSE left
         IN IF op = "+" \/ op = "-"
            THEN Operation(op, farLeft, Literal(Sub(bigger, smaller), NewId), NewId)
            ELSE Operation(op, farLeft, Literal(Div(bigger, smaller), NewId), NewId)

\* a Roll.simplify that resolves the roll, to its lowest result
simplifyRoll_Resolved(e) == Literal(IntNum(e.dice), NewId)

\* Roll.simplify
simplifyRoll(e) == e

\* Literal.simplify
simplifyLiteral(e) == e

\* a Reference.simplify that ignores the context
simplifyReference_Unresolved(e, context) == e

\* Reference.simplify
simplifyReference(e, context) ==
    IF e.ref \in DOMAIN context THEN Literal(context[e.ref], NewId) ELSE e

\* an Operation.simplify that tests this.left and this.right, not left and
\* right, for literals to fold
simplifyOperation_FoldsOperandsAsParsed(e, left, right) ==
    IF e.left.type = "Literal" /\ e.right.type = "Literal"
    THEN Literal(doOp(e.op, left.val, right.val), NewId)
    ELSE IF /\ right.type = "Literal"
            /\ left.type = "Operation"
            /\ precedence(left.op) = precedence(e.op)
            /\ left.right.type = "Literal"
    THEN mergeLeft(left.left, left.op, left.right.val, e.op, right.val)
    ELSE IF left = e.left /\ right = e.right
    THEN e
    ELSE Operation(e.op, left, right, NewId)

\* an Operation.simplify that left-merges whatever the precedence of the
\* operator of its left operand
simplifyOperation_MergesAcrossPrecedence(e, left, right) ==
    IF left.type = "Literal" /\ right.type = "Literal"
    THEN Literal(doOp(e.op, left.val, right.val), NewId)
    ELSE IF /\ right.type = "Literal"
            /\ left.type = "Operation"
            /\ left.right.type = "Literal"
    THEN mergeLeft(left.left, left.op, left.right.val, e.op, right.val)
    ELSE IF left = e.left /\ right = e.right
    THEN e
    ELSE Operation(e.op, left, right, NewId)

\* an Operation.simplify that never returns this (as the first version of
\* simplify did)
simplifyOperation_AlwaysNew(e, left, right) ==
    IF left.type = "Literal" /\ right.type = "Literal"
    THEN Literal(doOp(e.op, left.val, right.val), NewId)
    ELSE IF /\ right.type = "Literal"
            /\ left.type = "Operation"
            /\ precedence(left.op) = precedence(e.op)
            /\ left.right.type = "Literal"
    THEN mergeLeft(left.left, left.op, left.right.val, e.op, right.val)
    ELSE Operation(e.op, left, right, NewId)

\* Operation.simplify once both operands are simplified to left and right
simplifyOperation(e, left, right) ==
    IF left.type = "Literal" /\ right.type = "Literal"
    THEN Literal(doOp(e.op, left.val, right.val), NewId)
    ELSE IF /\ right.type = "Literal"
            /\ left.type = "Operation"
            /\ precedence(left.op) = precedence(e.op)
            /\ left.right.type = "Literal"
    THEN mergeLeft(left.left, left.op, left.right.val, e.op, right.val)
    ELSE IF left = e.left /\ right = e.right
    THEN e
    ELSE Operation(e.op, left, right, NewId)

\* Expression.simplify(context)
RECURSIVE simplify(_, _)
simplify(e, context) ==
    CASE e.type = "Literal" -> simplifyLiteral(e)
      [] e.type = "Roll" -> simplifyRoll(e)
      [] e.type = "Reference" -> simplifyReference(e, context)
      [] e.type = "Operation" ->
           simplifyOperation(e, simplify(e.left, context), simplify(e.right, context))

----------------------------------------------------------------------------
(* The caller: the texts it parses and the contexts it evaluates in *)

\* how many "operator operand" pairs follow the first operand of an input
MaxTail == 2
\* how many times in a row the caller simplifies an expression
MaxSimplify == 2

VarA == <<"a">>

Heads ==
    { VarA,
      <<"1", "d", "2">>,
      <<"1">>,
      <<"a", " ", "*", " ", "1">>,
      <<"(", "a", " ", "+", " ", "1", ")">> }

TailOperands ==
    { VarA, <<"0">>, <<"1">>, <<"-", "2">>,
      <<"(", "a", " ", "-", " ", "1", ")">> }

RECURSIVE TailText(_)
TailText(t) ==
    IF t = <<>> THEN <<>>
    ELSE <<" ", t[1][1], " ">> \o t[1][2] \o TailText(Tail(t))

ChainInputs ==
    { head \o TailText(t) :
        head \in Heads,
        t \in UNION { [1 .. k -> Operator \X TailOperands] : k \in 0 .. MaxTail } }

\* a literal below 10^-6
TinyLiteral == <<"0", ".", "0", "0", "0", "0", "0", "0", "1">>

Inputs == ChainInputs \cup {TinyLiteral}

EmptyContext == [name \in {} |-> NaN]
Contexts == { EmptyContext, [name \in {VarA} |-> IntNum(2)] }

NoValue == [k |-> "none", n |-> 0, d |-> 0, z |-> FALSE]

\* the number of dice an evaluation of e rolls
RECURSIVE DiceOf(_)
DiceOf(e) ==
    CASE e.type = "Roll" -> e.dice
      [] e.type = "Operation" -> DiceOf(e.left) + DiceOf(e.right)
      [] OTHER -> 0

----------------------------------------------------------------------------
(* State machine *)

Init ==
    /\ input \in Inputs
    /\ ctx \in Contexts
    /\ pc = "start"
    /\ parsed = NotParsed
    /\ cur = NoNode
    /\ prev = NoNode
    /\ nSimplify = 0
    /\ out = <<>>
    /\ reparsed = NotParsed
    /\ value = NoValue
    /\ sink = NoSink
    /\ randomCalls = 0
    /\ draws = <<>>

\* expr = parse(input)
CallParse ==
    /\ pc = "start"
    /\ parsed' = parse(input)
    /\ cur' = parsed'.e
    /\ pc' = IF parsed'.ok THEN "ready" ELSE "failed"
    /\ UNCHANGED <<input, ctx, prev, nSimplify, out, reparsed, value, sink, randomCalls, draws>>

\* expr = expr.simplify(ctx)
CallSimplify ==
    /\ pc = "ready"
    /\ nSimplify < MaxSimplify
    /\ prev' = cur
    /\ cur' = simplify(cur, ctx)
    /\ nSimplify' = nSimplify + 1
    /\ UNCHANGED <<input, ctx, pc, parsed, out, reparsed, value, sink, randomCalls, draws>>

\* value = expr.calc(ctx, rolls), with or without the rolls array; rnd are
\* the values Math.random returns during the call
CallCalc ==
    /\ pc = "ready"
    /\ \E given \in BOOLEAN, rnd \in [1 .. DiceOf(cur) -> RandomValues] :
         LET c == calc(cur, ctx, IF given THEN Sink(<<>>) ELSE NoSink, rnd, randomCalls)
         IN /\ value' = c.v
            /\ sink' = c.rollResults
            /\ randomCalls' = c.calls
            /\ draws' = rnd
    /\ pc' = "calced"
    /\ UNCHANGED <<input, ctx, parsed, cur, prev, nSimplify, out, reparsed>>

\* out = expr.toString()
CallToString ==
    /\ pc = "ready"
    /\ out' = toString(cur)
    /\ pc' = "printed"
    /\ UNCHANGED <<input, ctx, parsed, cur, prev, nSimplify, reparsed, value, sink, randomCalls, draws>>

\* parse(out): the printed text read back
CallReparse ==
    /\ pc = "printed"
    /\ reparsed' = parse(out)
    /\ pc' = "reparsed"
    /\ UNCHANGED <<input, ctx, parsed, cur, prev, nSimplify, out, value, sink, randomCalls, draws>>

Next ==
    \/ CallParse
    \/ CallSimplify
    \/ CallCalc
    \/ CallToString
    \/ CallReparse

Spec == Init /\ [][Next]_vars

----------------------------------------------------------------------------
(* Properties *)

\* a number without the sign of a zero
Unsigned(x) == IF IsZero(x) THEN Zero(FALSE) ELSE x

\* a tree without the identities of its nodes
RECURSIVE Strip(_)
Strip(e) ==
    CASE e.type = "Literal" -> Literal(Unsigned(e.val), NewId)
      [] e.type = "Reference" -> Reference(e.ref, NewId)
      [] e.type = "Roll" -> Roll(e.dice, e.sides, e.mod, NewId)
      [] e.type = "Operation" -> Operation(e.op, Strip(e.left), Strip(e.right), NewId)
      [] OTHER -> e

\* structural equality: the same tree of operators, names, rolls and numbers
StructEq(e1, e2) == Strip(e1) = Strip(e2)

\* equality of the numbers two evaluations return
SameNumber(x, y) == Unsigned(x) = Unsigned(y)

RECURSIVE HasRoll(_)
HasRoll(e) ==
    CASE e.type = "Roll" -> TRUE
      [] e.type = "Operation" -> HasRoll(e.left) \/ HasRoll(e.right)
      [] OTHER -> FALSE

\* the Roll nodes of e from left to right
RECURSIVE RollsOf(_)
RollsOf(e) ==
    CASE e.type = "Roll" -> <<e>>
      [] e.type = "Operation" -> RollsOf(e.left) \o RollsOf(e.right)
      [] OTHER -> <<>>

\* the names of the variables of e
RECURSIVE VarsOf(_)
VarsOf(e) ==
    CASE e.type = "Reference" -> {e.ref}
      [] e.type = "Operation" -> VarsOf(e.left) \cup VarsOf(e.right)
      [] OTHER -> {}

\* calc(e, context) of a roll-free expression
ValueOf(e, context) == calc(e, context, NoSink, <<>>, 0).v

\* C1: simplify preserves the value of a roll-free expression: whenever the
\* caller has simplified a parsed roll-free expression, the expression it
\* holds evaluates in ctx to the number the parsed expression evaluates to
\* (an infinity or NaN in both or in neither).
C1_SimplifyPreservesValue ==
    (nSimplify >= 1 /\ ~HasRoll(parsed.e))
        => SameNumber(ValueOf(cur, ctx), ValueOf(parsed.e, ctx))

\* C2: simplify is idempotent: a second simplify in the same context returns
\* an expression structurally equal to the one it was applied to.
C2_SimplifyIdempotent ==
    nSimplify >= 2 => StructEq(cur, prev)

\* C2 witness: a second simplify of a sum with a literal that a cancellation
\* of the first simplify exposed
C2_Witness ==
    /\ nSimplify = 2
    /\ parsed.e.type = "Operation" /\ parsed.e.left.type = "Operation"
    /\ parsed.e.right.type = "Literal" /\ parsed.e.left.right.type = "Literal"
    /\ parsed.e.left.op # parsed.e.op
    /\ parsed.e.left.right.val = parsed.e.right.val
    /\ prev.type = "Operation" /\ prev.right.type = "Literal"
    /\ precedence(prev.op) # precedence(parsed.e.op)
    /\ StructEq(prev, parsed.e.left.left)

\* whether simplify(e, context) substitutes a reference, folds two literals
\* or left-merges somewhere in e
RECURSIVE Rewrites(_, _)
Rewrites(e, context) ==
    CASE e.type = "Reference" -> e.ref \in DOMAIN context
      [] e.type = "Operation" ->
           \/ Rewrites(e.left, context)
           \/ Rewrites(e.right, context)
           \/ e.left.type = "Literal" /\ e.right.type = "Literal"
           \/ /\ e.right.type = "Literal"
              /\ e.left.type = "Operation"
              /\ precedence(e.left.op) = precedence(e.op)
              /\ e.left.right.type = "Literal"
      [] OTHER -> FALSE

C4_SimplifyKeepsRolls ==
    /\ pc # "calced" => randomCalls = 0
    /\ nSimplify >= 1 => RollsOf(cur) = RollsOf(prev)

\* C4 witness: a simplify that rewrote an expression with a Roll node
C4_Witness ==
    /\ nSimplify = 1 /\ pc = "ready"
    /\ RollsOf(prev) # <<>>
    /\ cur # prev

\* C5: a roll-free expression whose variables are all in ctx simplifies to a
\* single Literal holding the number calc returns for it.
C5_FullFolding ==
    (nSimplify >= 1 /\ ~HasRoll(parsed.e) /\ VarsOf(parsed.e) \subseteq DOMAIN ctx)
        => cur.type = "Literal" /\ cur.val = ValueOf(parsed.e, ctx)

\* C5 witness: a folded chain of three operands with a variable of ctx
C5_Witness ==
    /\ nSimplify = 1
    /\ parsed.e.type = "Operation" /\ parsed.e.left.type = "Operation"
    /\ VarsOf(parsed.e) # {} /\ VarsOf(parsed.e) \subseteq DOMAIN ctx
    /\ cur.type = "Literal"

\* the operator pairs of a cancellation
CancelPairs == { <<"+", "-">>, <<"-", "+">>, <<"*", "/">>, <<"/", "*">> }

\* e is the chain  x op1 v op2 v  of an operator pair and one literal value v
IsCancelChain(e) ==
    /\ e.type = "Operation" /\ e.right.type = "Literal"
    /\ e.left.type = "Operation" /\ e.left.right.type = "Literal"
    /\ <<e.left.op, e.op>> \in CancelPairs
    /\ e.left.right.val = e.right.val

\* s, the simplified form of x, takes part in a left-merge with a literal
\* that op attaches to it
IsMergeOperand(s, op) ==
    s.type = "Operation" /\ precedence(s.op) = precedence(op) /\ s.right.type = "Literal"

\* C6 as claimed: for every x that does not simplify to a Literal, simplify of
\* x op1 v op2 v  returns exactly the simplified form of x.  (Stated for the
\* literals v other than 0: no division by zero takes part in a violation.)
C6_CancellationOfEveryX ==
    (nSimplify = 1 /\ IsCancelChain(prev) /\ ~IsZero(prev.right.val)
        /\ simplify(prev.left.left, ctx).type # "Literal")
        => StructEq(cur, simplify(prev.left.left, ctx))

\* C6 as amended: for every x whose simplified form is neither a Literal nor
\* an Operation of the precedence of op1 with a Literal right operand,
\* simplify of  x op1 v op2 v  returns exactly the simplified form of x.
C6_Cancellation ==
    (nSimplify = 1 /\ IsCancelChain(prev)
        /\ simplify(prev.left.left, ctx).type # "Literal"
        /\ ~IsMergeOperand(simplify(prev.left.left, ctx), prev.left.op))
        => StructEq(cur, simplify(prev.left.left, ctx))

\* C6 witness: a cancellation behind a parenthesised sum
C6_Witness ==
    /\ nSimplify = 1 /\ IsCancelChain(prev)
    /\ prev.left.left.type = "Operation"
    /\ ~IsMergeOperand(simplify(prev.left.left, ctx), prev.left.op)
    /\ cur.type = "Operation"

\* the absolute value of a number that is not NaN
Magnitude(x) == IF IsNeg(x) THEN Neg(x) ELSE x

\* e is the chain  x op1 l1 op2 l2  of two different operators of one
\* precedence and two literals of unequal magnitude
IsMergeChain(e) ==
    /\ e.type = "Operation" /\ e.right.type = "Literal"
    /\ e.left.type = "Operation" /\ e.left.right.type = "Literal"
    /\ e.left.op # e.op /\ precedence(e.left.op) = precedence(e.op)
    /\ ~StrictEq(Magnitude(e.left.right.val), Magnitude(e.right.val))

\* x op k  for the chain e, as C7 words it: op is the operator of the literal
\* of larger magnitude, k that literal minus (divided by) the other one
ClaimedMerge(e, x) ==
    LET leftBigger == Gt(Magnitude(e.left.right.val), Magnitude(e.right.val))
        op == IF leftBigger THEN e.left.op ELSE e.op
        larger == IF leftBigger THEN e.left.right.val ELSE e.right.val
        smaller == IF leftBigger THEN e.right.val ELSE e.left.right.val
    IN Operation(op, x,
                 Literal(IF precedence(op) = PrecAdditive
                         THEN Sub(larger, smaller) ELSE Div(larger, smaller), NewId),
                 NewId)

\* C7 as claimed: simplify of  x op1 l1 op2 l2  for a non-literal x that is
\* no merge operand itself is  x op k  with op the operator attached to the
\* literal of larger magnitude.  (Stated for * and / and literals other than
\* 0, the case of the claim's example  a * 1 / -3.)
C7_LeftMergeDifferentOperators ==
    (nSimplify = 1 /\ IsMergeChain(prev)
        /\ precedence(prev.op) = PrecMultiplicative
        /\ ~IsZero(prev.left.right.val) /\ ~IsZero(prev.right.val)
        /\ simplify(prev.left.left, ctx).type # "Literal"
        /\ ~IsMergeOperand(simplify(prev.left.left, ctx), prev.left.op))
        => StructEq(cur, ClaimedMerge(prev, simplify(prev.left.left, ctx)))

\* C8 as claimed: the text toString prints for a parsed expression parses,
\* to an expression structurally equal to the one printed.
C8_PrintThenParse ==
    (pc = "reparsed" /\ nSimplify = 0) => reparsed.ok /\ StructEq(reparsed.e, cur)

\* C9 as claimed: the text toString prints for a simplified expression
\* parses, to an expression structurally equal to the simplified one.
C9_SimplifiedTextParses ==
    (pc = "reparsed" /\ nSimplify >= 1) => reparsed.ok /\ StructEq(reparsed.e, cur)

----------------------------------------------------------------------------
(* A reference evaluator of expression texts, for C10.  It does not descend  *)
(* through a grammar: it splits the words of a text at the last operator of  *)
(* lowest precedence outside parentheses.                                    *)

\* the words of a text: maximal runs without blanks, each parenthesis a word
RECURSIVE RefWords(_, _)
RefWords(text, word) ==
    IF text = <<>> THEN (IF word = <<>> THEN <<>> ELSE <<word>>)
    ELSE IF Head(text) \in Whitespace
    THEN (IF word = <<>> THEN <<>> ELSE <<word>>) \o RefWords(Tail(text), <<>>)
    ELSE IF Head(text) \in {"(", ")"}
    THEN (IF word = <<>> THEN <<>> ELSE <<word>>) \o <<<<Head(text)>>>>
         \o RefWords(Tail(text), <<>>)
    ELSE RefWords(Tail(text), Append(word, Head(text)))

\* a word of the form [-]digits[.digits]
IsNumberWord(w) ==
    LET a == IF At(w, 0) = "-" THEN 1 ELSE 0
        b == SpanEnd(w, a, Digit)
        c == SpanEnd(w, b + 1, Digit)
    IN /\ b > a
       /\ \/ b = Len(w)
          \/ At(w, b) = "." /\ c > b + 1 /\ c = Len(w)

\* a word of the form (letter | _ | $)(letter | digit | _ | $ | .)*
IsNameWord(w) ==
    /\ At(w, 0) \in Letter \cup {"_", "$"}
    /\ SpanEnd(w, 1, Letter \cup Digit \cup {"_", "$", "."}) = Len(w)

\* how many parentheses are open before word i
RECURSIVE RefDepth(_, _)
RefDepth(ws, i) ==
    IF i <= 1 THEN 0
    ELSE RefDepth(ws, i - 1)
         + (IF ws[i - 1] = <<"(">> THEN 1 ELSE IF ws[i - 1] = <<")">> THEN -1 ELSE 0)

\* the last word at or before i that is one of ops outside parentheses, or 0
RECURSIVE RefLastOp(_, _, _)
RefLastOp(ws, ops, i) ==
    IF i = 0 THEN 0
    ELSE IF Len(ws[i]) = 1 /\ ws[i][1] \in ops /\ RefDepth(ws, i) = 0 THEN i
    ELSE RefLastOp(ws, ops, i - 1)

RefUndefined == [ok |-> FALSE, v |-> NaN]
RefValue(v) == [ok |-> TRUE, v |-> v]

RefApply(op, l, r) ==
    IF ~l.ok \/ ~r.ok THEN RefUndefined
    ELSE RefValue(CASE op = "+" -> Add(l.v, r.v)
                    [] op = "-" -> Sub(l.v, r.v)
                    [] op = "*" -> Mul(l.v, r.v)
                    [] op = "/" -> Div(l.v, r.v))

RECURSIVE RefEval(_, _)
RefSplit(ws, i, context) ==
    RefApply(ws[i][1], RefEval(SubSeq(ws, 1, i - 1), context),
                       RefEval(SubSeq(ws, i + 1, Len(ws)), context))

RefEvalAt(ws, additive, multiplicative, context) ==
    IF additive > 0 THEN RefSplit(ws, additive, context)
    ELSE IF multiplicative > 0 THEN RefSplit(ws, multiplicative, context)
    ELSE IF Len(ws) >= 3 /\ ws[1] = <<"(">> /\ ws[Len(ws)] = <<")">>
    THEN RefEval(SubSeq(ws, 2, Len(ws) - 1), context)
    ELSE IF Len(ws) # 1 THEN RefUndefined
    ELSE IF IsNumberWord(ws[1]) THEN RefValue(NumberOf(ws[1], 0, Len(ws[1])))
    ELSE IF IsNameWord(ws[1])
    THEN RefValue(IF ws[1] \in DOMAIN context THEN context[ws[1]] ELSE Zero(FALSE))
    ELSE RefUndefined

\* the value of the words ws in standard arithmetic, when they are a
\* roll-free expression
RefEval(ws, context) ==
    IF ws = <<>> THEN RefUndefined
    ELSE RefEvalAt(ws, RefLastOp(ws, {"+", "-"}, Len(ws)),
                   RefLastOp(ws, {"*", "/"}, Len(ws)), context)

\* C10: calc of a parsed roll-free text returns the number standard
\* arithmetic gives the text: * and / before + and -, equal precedence from
\* the left, parentheses first, true division, a variable as ctx has it and 0
\* when ctx lacks it.
C10_CalcIsStandardArithmetic ==
    (pc # "start" /\ RefEval(RefWords(input, <<>>), ctx).ok)
        => /\ parsed.ok
           /\ SameNumber(ValueOf(parsed.e, ctx), RefEval(RefWords(input, <<>>), ctx).v)

\* C10 witness: a text that mixes both precedences around a parenthesised
\* right operand, with a variable ctx lacks, parsed and evaluated
C10_Witness ==
    /\ pc = "calced" /\ nSimplify = 0
    /\ ctx = EmptyContext /\ VarsOf(parsed.e) # {}
    /\ parsed.e.type = "Operation" /\ parsed.e.right.type = "Operation"
    /\ precedence(parsed.e.right.op) <= precedence(parsed.e.op)
    /\ parsed.e.left.type = "Operation"
    /\ precedence(parsed.e.left.op) # precedence(parsed.e.op)
    /\ RefEval(RefWords(input, <<>>), ctx).ok
    /\ value = RefEval(RefWords(input, <<>>), ctx).v

----------------------------------------------------------------------------
(* A second caller: texts of every lexical and grammatical kind, and calc   *)
(* called again with the array of the call before.                          *)

\* variable names without the digit 0
NameTexts ==
    { <<"a", "b">>,
      <<"_", "1">>,
      <<"$", "x">>,
      <<"a", ".", "b">>,
      <<"a", "B", "_", "1">> }

\* variable names with the digit 0 after the first character
ZeroNameTexts ==
    { <<"a", "0">>,
      <<"a", "1", "0">>,
      <<"x", ".", "0">> }

\* expressions with rolls of one die and more
RollTexts ==
    { <<"2", "d", "2">>,
      <<"2", "d", "2", "h">>,
      <<"2", "d", "2", "l">>,
      <<"2", "d", "3", "h">>,
      <<"1", "d", "2", " ", "+", " ", "2", "d", "2", "h">>,
      <<"2", "d", "2", "l", " ", "*", " ", "(", "1", "d", "2", " ", "-", " ", "a", ")">>,
      <<"1", "d", "2", "h", " ", "+", " ", "1", "d", "2", " ", "+", " ", "2", "d", "2", "l">> }

\* rolls written with no dice or no sides
ZeroRollTexts ==
    { <<"0", "d", "2">>,
      <<"1", "d", "0">>,
      <<"0", "d", "2", "h">> }

\* empty input, unmatched parentheses, operators where an operand is expected,
\* numbers and rolls directly followed by letters, invalid characters and
\* tokens left after the expression
RejectedTexts ==
    { <<>>,
      <<"(", "a">>,
      <<"a", ")">>,
      <<"a", " ", "+", " ", "(", "1">>,
      <<"(", ")">>,
      <<"1", "+", "*", "3">>,
      <<"+", "a">>,
      <<"1", " ", "+", " ">>,
      <<"*", " ", "1">>,
      <<"1", "a">>,
      <<"1", "a", "b">>,
      <<"1", "d", "2", "o">>,
      <<"1", "d", "2", "h", "l">>,
      <<"a", ";", "1">>,
      <<"a", " ", "b">>,
      <<"a", " ", "1", " ", "+", " ", "1">>,
      <<"1", ".">> }

\* blanks of every kind around the tokens, a literal with a fraction
SpacedTexts ==
    { <<" ", " ", "a", " ", "+", "\t", "1", "\n">>,
      <<"1", ".", "5", " ", "*", " ", "a">> }

\* literals on both sides of an operator of another precedence
MixedTexts ==
    { <<"1", " ", "+", " ", "2", " ", "*", " ", "b">>,
      <<"1", " ", "-", " ", "2", " ", "/", " ", "b">>,
      <<"1", " ", "+", " ", "2", " ", "*", " ", "1", "d", "2">>,
      <<"1", " ", "-", " ", "2", " ", "/", " ", "1", "d", "2">>,
      <<"b", " ", "*", " ", "2", " ", "+", " ", "1">>,
      <<"1", "d", "2", " ", "/", " ", "2", " ", "-", " ", "1">> }

\* one operand, one operator and one operand, with blanks and without
SpacingTexts ==
    { <<"a", "-", "1">>,
      <<"a", " ", "-", "1">>,
      <<"a", "-", " ", "1">>,
      <<"a", " ", "-", " ", "1">>,
      <<"a", "+", "1">>,
      <<"a", " ", "+", "1">>,
      <<"a", "+", " ", "1">>,
      <<"a", " ", "+", " ", "1">>,
      <<"1", "d", "2", "*", "b">>,
      <<"1", "d", "2", " ", "*", "\t", "b">> }

\* texts with a character that no token rule matches, first or after tokens
UnlexableTexts ==
    { <<"f", ";", "3", "d", "3">>,
      <<";", "3">>,
      <<" ", "?", " ">>,
      <<"2", " ", "*", " ", "a", " ", "!">> }

\* single dice of one, two and three sides
DieTexts ==
    { <<"1", "d", "1">>,
      <<"1", "d", "2">>,
      <<"1", "d", "3">> }

TextInputs ==
    NameTexts \cup ZeroNameTexts \cup RollTexts \cup ZeroRollTexts
        \cup RejectedTexts \cup SpacedTexts \cup MixedTexts \cup SpacingTexts
        \cup UnlexableTexts \cup DieTexts

\* how many values Math.random has returned when the caller stops calling calc
MaxRandomCalls == 4

InitText ==
    /\ input \in TextInputs
    /\ ctx \in Contexts
    /\ pc = "start"
    /\ parsed = NotParsed
    /\ cur = NoNode
    /\ prev = NoNode
    /\ nSimplify = 0
    /\ out = <<>>
    /\ reparsed = NotParsed
    /\ value = NoValue
    /\ sink = NoSink
    /\ randomCalls = 0
    /\ draws = <<>>

\* value = expr.calc(ctx, rolls) once more, with the rolls array of the call before
CallCalcAgain ==
    /\ pc = "calced"
    /\ sink.given
    /\ DiceOf(cur) > 0
    /\ randomCalls < MaxRandomCalls
    /\ \E rnd \in [1 .. DiceOf(cur) -> RandomValues] :
         LET c == calc(cur, ctx, sink, rnd, randomCalls)
         IN /\ value' = c.v
            /\ sink' = c.rollResults
            /\ randomCalls' = c.calls
            /\ draws' = rnd
    /\ UNCHANGED <<input, ctx, pc, parsed, cur, prev, nSimplify, out, reparsed>>

NextText ==
    \/ CallParse
    \/ CallSimplify
    \/ CallCalc
    \/ CallCalcAgain
    \/ CallToString
    \/ CallReparse

SpecText == InitText /\ [][NextText]_vars

----------------------------------------------------------------------------
(* The grammar expr / term / factor over the characters of a text, with the *)
(* tokens as the specification words them.  It recognises by splitting at   *)
(* an operator, not by reading tokens from the left.                        *)

\* a word of the form digits d digits [h | l]
IsRollWord(w) ==
    /\ SpanEnd(w, 0, Digit) > 0
    /\ At(w, SpanEnd(w, 0, Digit)) = "d"
    /\ SpanEnd(w, SpanEnd(w, 0, Digit) + 1, Digit) > SpanEnd(w, 0, Digit) + 1
    /\ \/ SpanEnd(w, SpanEnd(w, 0, Digit) + 1, Digit) = Len(w)
       \/ /\ SpanEnd(w, SpanEnd(w, 0, Digit) + 1, Digit) = Len(w) - 1
          /\ w[Len(w)] \in {"h", "l"}

RECURSIVE GramExpr(_), GramTerm(_), GramFactor(_)

\* w, without blanks around it, is a factor
GramFactorWord(w) ==
    \/ IsNameWord(w)
    \/ IsRollWord(w)
    \/ IsNumberWord(w)
    \/ /\ Len(w) >= 2 /\ w[1] = "(" /\ w[Len(w)] = ")"
       /\ GramExpr(SubSeq(w, 2, Len(w) - 1))

GramFactor(t) == GramFactorWord(trim(t))

GramTerm(t) ==
    \/ GramFactor(t)
    \/ \E k \in 1 .. Len(t) :
         /\ t[k] \in {"*", "/"}
         /\ GramFactor(SubSeq(t, k + 1, Len(t)))
         /\ GramTerm(SubSeq(t, 1, k - 1))

GramExpr(t) ==
    \/ GramTerm(t)
    \/ \E k \in 1 .. Len(t) :
         /\ t[k] \in {"+", "-"}
         /\ GramTerm(SubSeq(t, k + 1, Len(t)))
         /\ GramExpr(SubSeq(t, 1, k - 1))

\* C11: parse never truncates silently: it returns an expression only for a
\* text that the grammar derives as a whole, it fails on each of the texts of
\* RejectedTexts, and a failed parse leaves the caller without an expression.
C11_NoSilentTruncation ==
    pc # "start" =>
        /\ parsed.ok => GramExpr(input)
        /\ input \in RejectedTexts => ~parsed.ok
        /\ ~parsed.ok => pc = "failed" /\ parsed.e = NoNode /\ cur = NoNode

\* C11 witness: a failed parse of a text that starts with an expression and
\* goes on with another token
C11_Witness ==
    /\ pc = "failed"
    /\ parseExpr(trim(input), 0).ok
    /\ tokenize(trim(input), parseExpr(trim(input), 0).idx).k = "expr"

\* C12: every failure of parse is of the kind SyntaxError.
C12_OneErrorKind ==
    pc = "failed" => parsed.err = "SyntaxError"

\* C13: a text that is one variable name, (letter | _ | $) followed by letters,
\* digits (0 included), _, $ and ., parses to one Reference of that name.
C13_NamesAreReferences ==
    (pc # "start" /\ IsNameWord(input))
        => parsed.ok /\ parsed.e.type = "Reference" /\ parsed.e.ref = input

----------------------------------------------------------------------------
(* Rolls *)

\* the faces the dice of the Roll e show for the values d of Math.random
Faces(e, d) == [i \in 1 .. Len(d) |-> roll1(d[i], e.sides)]

RECURSIVE FaceTotal(_, _)
FaceTotal(faces, n) == IF n = 0 THEN 0 ELSE FaceTotal(faces, n - 1) + faces[n]

\* the number a Roll with modifier mod makes of at least one face
Aggregate(mod, faces) ==
    IF mod = "h"
    THEN CHOOSE f \in {faces[i] : i \in DOMAIN faces} : \A i \in DOMAIN faces : faces[i] <= f
    ELSE IF mod = "l"
    THEN CHOOSE f \in {faces[i] : i \in DOMAIN faces} : \A i \in DOMAIN faces : f <= faces[i]
    ELSE FaceTotal(faces, Len(faces))

\* the RollResult of the Roll e for the values d of Math.random
RollResultOf(e, d) ==
    [die |-> e.sides, rolls |-> Faces(e, d), value |-> IntNum(Aggregate(e.mod, Faces(e, d)))]

\* C14: every calc of a Roll node with k >= 1 dice calls Math.random exactly k
\* times and returns the sum of the faces, their maximum with h and their
\* minimum with l, with or without a rolls array; to a rolls array it appends
\* one record with die = sides, rolls = the k faces in the order drawn and
\* value = the number returned.
C14_RollAggregates ==
    [][(pc' = "calced" /\ cur.type = "Roll" /\ cur.dice >= 1) =>
          /\ randomCalls' = randomCalls + cur.dice
          /\ Len(draws') = cur.dice
          /\ value' = IntNum(Aggregate(cur.mod, Faces(cur, draws')))
          /\ sink'.given => sink'.items = Append(sink.items, RollResultOf(cur, draws'))
          /\ ~sink'.given => sink' = NoSink]_vars

\* C14 witness: a second calc of a Roll of two dice with h, whose dice show
\* different faces, with a rolls array
C14_Witness ==
    /\ pc = "calced" /\ cur.type = "Roll" /\ cur.dice = 2 /\ cur.mod = "h"
    /\ sink.given /\ Len(sink.items) = 2
    /\ Len(draws) = 2
    /\ roll1(draws[1], cur.sides) < roll1(draws[2], cur.sides)
    /\ value = IntNum(roll1(draws[2], cur.sides))

\* how many dice the Roll nodes before the i-th of rolls have
RECURSIVE DiceBefore(_, _)
DiceBefore(rolls, i) ==
    IF i <= 1 THEN 0 ELSE DiceBefore(rolls, i - 1) + rolls[i - 1].dice

\* the values of Math.random that the i-th of rolls takes from d, when the
\* rolls draw one after the other
DrawsOf(rolls, i, d) ==
    SubSeq(d, DiceBefore(rolls, i) + 1, DiceBefore(rolls, i) + rolls[i].dice)

\* C15: every calc with a rolls array leaves the entries the array had and
\* appends one RollResult per Roll node of the expression, in the order of the
\* Roll nodes from left to right, the dice of a Roll further left drawn
\* before the dice of a Roll further right.
C15_SinkOrder ==
    [][(pc' = "calced" /\ sink'.given) =>
          /\ Len(sink'.items) = Len(sink.items) + Len(RollsOf(cur))
          /\ SubSeq(sink'.items, 1, Len(sink.items)) = sink.items
          /\ \A i \in 1 .. Len(RollsOf(cur)) :
               /\ sink'.items[Len(sink.items) + i].die = RollsOf(cur)[i].sides
               /\ sink'.items[Len(sink.items) + i].rolls
                    = Faces(RollsOf(cur)[i], DrawsOf(RollsOf(cur), i, draws'))]_vars

\* C15 witness: a second calc, with the array of the first, of a product
\* whose right operand is a parenthesised difference with a Roll, the dice of
\* the left Roll showing faces that the right Roll cannot show in that order
C15_Witness ==
    /\ pc = "calced" /\ sink.given
    /\ cur.type = "Operation" /\ cur.right.type = "Operation"
    /\ Len(RollsOf(cur)) = 2
    /\ Len(sink.items) = 4
    /\ RollsOf(cur)[1].dice = 2 /\ RollsOf(cur)[2].dice = 1
    /\ sink.items[3].rolls = <<2, 1>>
    /\ sink.items[4].rolls = <<2>>

\* C16: every Roll node of a parsed expression has at least one die and at
\* least one side: a roll written with 0 dice or 0 sides does not parse.
C16_RollsArePositive ==
    parsed.ok =>
        \A i \in 1 .. Len(RollsOf(parsed.e)) :
            RollsOf(parsed.e)[i].dice >= 1 /\ RollsOf(parsed.e)[i].sides >= 1

----------------------------------------------------------------------------
(* The rewriting rules of simplify *)

\* e is a literal operand of a chain in context: a Literal, or a Reference
\* that context resolves
IsLiteralOperand(e, context) ==
    \/ e.type = "Literal"
    \/ e.type = "Reference" /\ e.ref \in DOMAIN context

\* e is the chain  x op l1 op l2  of one operator and two literal operands
IsSameOperatorChain(e, context) ==
    /\ e.type = "Operation" /\ e.left.type = "Operation"
    /\ e.left.op = e.op
    /\ IsLiteralOperand(e.left.right, context)
    /\ IsLiteralOperand(e.right, context)

\* x op (l1 + l2)  for + and -,  x op (l1 * l2)  for * and /, for the chain e
\* and the simplified form x of its first operand
SameOperatorMerge(e, x, context) ==
    Operation(e.op, x,
              Literal(IF precedence(e.op) = PrecAdditive
                      THEN Add(simplify(e.left.right, context).val, simplify(e.right, context).val)
                      ELSE Mul(simplify(e.left.right, context).val, simplify(e.right, context).val),
                      NewId),
              NewId)

\* C17 as claimed: for every x that does not simplify to a Literal, simplify
\* of  x op l1 op l2  is  x op (l1 + l2)  for + and -, and  x op (l1 * l2)
\* for * and /.  (Stated for literals other than 0: no division by zero
\* takes part in a violation.)
C17_SameOperatorMergeOfEveryX ==
    (nSimplify = 1 /\ IsSameOperatorChain(prev, ctx)
        /\ ~IsZero(simplify(prev.left.right, ctx).val)
        /\ ~IsZero(simplify(prev.right, ctx).val)
        /\ simplify(prev.left.left, ctx).type # "Literal")
        => StructEq(cur, SameOperatorMerge(prev, simplify(prev.left.left, ctx), ctx))

\* C17 as amended: the same for every x whose simplified form is neither a
\* Literal nor an Operation of the precedence of op with a Literal right
\* operand.
C17_SameOperatorMerge ==
    (nSimplify = 1 /\ IsSameOperatorChain(prev, ctx)
        /\ simplify(prev.left.left, ctx).type # "Literal"
        /\ ~IsMergeOperand(simplify(prev.left.left, ctx), prev.op))
        => StructEq(cur, SameOperatorMerge(prev, simplify(prev.left.left, ctx), ctx))

\* C17 witness: a Roll divided by a variable of ctx and divided by a literal,
\* merged into the Roll divided by the product
C17_Witness ==
    /\ nSimplify = 1 /\ IsSameOperatorChain(prev, ctx)
    /\ prev.op = "/"
    /\ prev.left.left.type = "Roll" /\ prev.left.right.type = "Reference"
    /\ prev.right.type = "Literal" /\ prev.right.val = IntNum(-2)
    /\ cur.type = "Operation" /\ cur.op = "/" /\ cur.left = prev.left.left
    /\ cur.right.type = "Literal" /\ cur.right.val = IntNum(-4)

\* x is a Roll or a variable that context does not resolve
IsUnresolved(x, context) ==
    \/ x.type = "Roll"
    \/ x.type = "Reference" /\ x.ref \notin DOMAIN context

\* e is  l1 + l2 * x  or  l1 - l2 / x  (or with the other operator of each
\* precedence) for literals l1, l2 and an unresolved x
IsRightCrossChain(e, context) ==
    /\ e.type = "Operation" /\ precedence(e.op) = PrecAdditive
    /\ e.left.type = "Literal"
    /\ e.right.type = "Operation" /\ precedence(e.right.op) = PrecMultiplicative
    /\ e.right.left.type = "Literal"
    /\ IsUnresolved(e.right.right, context)

\* e is  x op1 l1 op2 l2  for operators of different precedence, literals
\* l1, l2 and an unresolved x
IsLeftCrossChain(e, context) ==
    /\ e.type = "Operation" /\ e.right.type = "Literal"
    /\ e.left.type = "Operation" /\ precedence(e.left.op) # precedence(e.op)
    /\ e.left.right.type = "Literal"
    /\ IsUnresolved(e.left.left, context)

\* C18: simplify does not combine two literals across operators of different
\* precedence:  l1 + l2 * x  and  l1 - l2 / x  with x a Roll or an unresolved
\* variable come back unchanged, the same node, and so does a left-leaning
\* chain whose two operators differ in precedence.
C18_NoCrossPrecedenceMerge ==
    (nSimplify >= 1 /\ (IsRightCrossChain(parsed.e, ctx) \/ IsLeftCrossChain(parsed.e, ctx)))
        => cur = parsed.e

\* C18 witness: 1 - 2 / x  with a Roll x, simplified
C18_Witness ==
    /\ nSimplify >= 1 /\ IsRightCrossChain(parsed.e, ctx)
    /\ parsed.e.op = "-" /\ parsed.e.right.op = "/"
    /\ parsed.e.right.right.type = "Roll"
    /\ cur = parsed.e

\* no additive Operation of e with a non-literal left operand has a negative
\* Literal as its right operand
RECURSIVE NoNegativeAddend(_)
NoNegativeAddend(e) ==
    e.type = "Operation" =>
        /\ NoNegativeAddend(e.left)
        /\ NoNegativeAddend(e.right)
        /\ ~ /\ precedence(e.op) = PrecAdditive
             /\ e.left.type # "Literal"
             /\ e.right.type = "Literal"
             /\ IsNeg(e.right.val)

\* C19: the output of simplify holds no additive Operation with a non-literal
\* left operand and a negative Literal as right operand.
C19_SignNormalisation ==
    nSimplify >= 1 => NoNegativeAddend(cur)

----------------------------------------------------------------------------
(* Parentheses of the printed text *)

\* the text of e with parentheses around child exactly when wrap holds
Wrapped(wrap, text) == IF wrap THEN <<"(">> \o text \o <<")">> ELSE text

\* the text C20 words: the left operand in parentheses exactly when it is an
\* Operation of strictly lower precedence, the right operand exactly when it
\* is an Operation of lower or equal precedence, and no other parentheses
RECURSIVE ClaimedText(_)
ClaimedText(e) ==
    IF e.type # "Operation" THEN toString(e)
    ELSE Wrapped(e.left.type = "Operation" /\ precedence(e.left.op) < precedence(e.op),
                 ClaimedText(e.left))
         \o <<" ", e.op, " ">>
         \o Wrapped(e.right.type = "Operation" /\ precedence(e.right.op) <= precedence(e.op),
                    ClaimedText(e.right))

\* the position of the parenthesis that closes the one depth levels above
\* position i, scanning text from i
RECURSIVE CloseOf(_, _, _)
CloseOf(text, i, depth) ==
    IF i > Len(text) THEN 0
    ELSE IF text[i] = "(" THEN CloseOf(text, i + 1, depth + 1)
    ELSE IF text[i] = ")"
    THEN (IF depth = 1 THEN i ELSE CloseOf(text, i + 1, depth - 1))
    ELSE CloseOf(text, i + 1, depth)

\* text without the characters at positions i < j
Without(text, i, j) ==
    SubSeq(text, 1, i - 1) \o SubSeq(text, i + 1, j - 1) \o SubSeq(text, j + 1, Len(text))

\* text without the pair of parentheses that opens at position i
WithoutPair(text, i) == Without(text, i, CloseOf(text, i + 1, 1))

\* C20: the text toString prints has parentheses around a left operand
\* exactly when it is an Operation of strictly lower precedence and around a
\* right operand exactly when it is an Operation of lower or equal precedence,
\* and the text without any one of its pairs of parentheses does not parse to
\* the expression printed.
C20_MinimalParentheses ==
    pc \in {"printed", "reparsed"} =>
        /\ out = ClaimedText(cur)
        /\ \A i \in 1 .. Len(out) :
             out[i] = "(" =>
                ~ /\ parse(WithoutPair(out, i)).ok
                  /\ StructEq(parse(WithoutPair(out, i)).e, cur)

\* C20 witness: a printed product of a sum and a difference, both in
\* parentheses, that followed by an operand without parentheses
C20_Witness ==
    /\ pc = "printed"
    /\ cur.type = "Operation" /\ cur.left.type = "Operation"
    /\ cur.left.left.type = "Operation" /\ cur.left.right.type = "Operation"
    /\ precedence(cur.left.op) = PrecMultiplicative
    /\ \E i, j \in 1 .. Len(out) : i < j /\ out[i] = "(" /\ out[j] = "("
    /\ out[Len(out)] # ")"

----------------------------------------------------------------------------
(* Blanks and error messages *)

\* text without its blanks
RECURSIVE Squeeze(_)
Squeeze(text) ==
    IF text = <<>> THEN <<>>
    ELSE IF Head(text) \in Whitespace THEN Squeeze(Tail(text))
    ELSE <<Head(text)>> \o Squeeze(Tail(text))

\* the first position after i, and the last before i, that holds no blank
\* (0 or Len(text) + 1 when there is none)
RECURSIVE NextInk(_, _), PrevInk(_, _)
NextInk(text, i) ==
    IF i >= Len(text) THEN Len(text) + 1
    ELSE IF text[i + 1] \in Whitespace THEN NextInk(text, i + 1) ELSE i + 1
PrevInk(text, i) ==
    IF i <= 1 THEN 0
    ELSE IF text[i - 1] \in Whitespace THEN PrevInk(text, i - 1) ELSE i - 1

\* every blank of text stands before the first token, after the last one, or
\* next to an operator
BlanksAtOperators(text) ==
    \A i \in 1 .. Len(text) :
        text[i] \in Whitespace =>
            \/ PrevInk(text, i) = 0
            \/ NextInk(text, i) = Len(text) + 1
            \/ text[PrevInk(text, i)] \in {"+", "-", "*", "/"}
            \/ text[NextInk(text, i)] \in {"+", "-", "*", "/"}

\* C21: two texts that differ only in the blanks between operands and
\* operators both fail to parse, or parse to structurally equal expressions.
C21_WhitespaceInsignificant ==
    (pc # "start" /\ BlanksAtOperators(input)) =>
        \A t \in TextInputs :
            (BlanksAtOperators(t) /\ Squeeze(t) = Squeeze(input)) =>
                /\ parse(t).ok = parsed.ok
                /\ parsed.ok => StructEq(parse(t).e, parsed.e)

\* the lastIndex at which tokenPattern.exec fails when text is tokenized from
\* lastIndex i on, -1 when every exec matches
RECURSIVE FailurePosition(_, _)
FailurePosition(text, i) ==
    IF i >= Len(text) THEN -1
    ELSE IF exec(text, i).k = "error" THEN i
    ELSE FailurePosition(text, exec(text, i).idx)

\* the message is the one of a failed tokenization
IsUnexpectedInput(msg) ==
    /\ Len(msg) >= Len(UnexpectedInput)
    /\ SubSeq(msg, 1, Len(UnexpectedInput)) = UnexpectedInput

\* C22: when tokenization fails at position p, the message of the syntax
\* error reports the input from p on, and nothing tokenized before p.
C22_ErrorReportsRemainder ==
    (pc # "start" /\ ~parsed.ok /\ IsUnexpectedInput(parsed.msg)) =>
        /\ parsed.err = "SyntaxError"
        /\ FailurePosition(trim(input), 0) >= 0
        /\ Substring(parsed.msg, Len(UnexpectedInput))
               = Substring(trim(input), FailurePosition(trim(input), 0))

----------------------------------------------------------------------------
(* The faces of a die *)

\* C23: every face a calc records for a die of s >= 1 sides is an integer
\* from 1 to s; the random value 0 gives the face 1, and a random value u
\* close to 1, from 1 - 1 / s on, gives the face s.
C23_DrawBounds ==
    (pc = "calced" /\ sink.given) =>
        /\ \A i \in 1 .. Len(sink.items) :
              sink.items[i].die >= 1 =>
                  \A j \in 1 .. Len(sink.items[i].rolls) :
                      sink.items[i].rolls[j] \in 1 .. sink.items[i].die
        /\ \A i \in 1 .. Len(RollsOf(cur)) :
              RollsOf(cur)[i].sides >= 1 =>
                  \A j \in 1 .. RollsOf(cur)[i].dice :
                      /\ DrawsOf(RollsOf(cur), i, draws)[j] = 0 =>
                            sink.items[Len(sink.items) - Len(RollsOf(cur)) + i].rolls[j] = 1
                      /\ DrawsOf(RollsOf(cur), i, draws)[j] * RollsOf(cur)[i].sides
                            >= RandomGrain * (RollsOf(cur)[i].sides - 1) =>
                            sink.items[Len(sink.items) - Len(RollsOf(cur)) + i].rolls[j]
                                = RollsOf(cur)[i].sides

\* C23 witness: a calc of two dice of two sides with a rolls array, the first
\* random value 0 and the second the greatest there is, the faces recorded 1
\* and 2
C23_Witness ==
    /\ pc = "calced" /\ sink.given
    /\ cur.type = "Roll" /\ cur.dice = 2 /\ cur.sides = 2
    /\ draws = <<0, RandomGrain - 1>>
    /\ sink.items[Len(sink.items)].rolls = <<1, 2>>

====
